---- MODULE Spec2Model ----
(***************************************************************************)
(* The conditional UNet of models/unet.py as a state machine over tensor   *)
(* SHAPES: construction of the module tree, the two configuration toggles, *)
(* and one forward call executed layer application by layer application    *)
(* (conv_in, encoder, bottleneck, decoder, output projection) with its     *)
(* skip-connection stack.  Tensor values are abstracted to shapes          *)
(* [b, c, h, w]; every operation of the forward pass either maps shapes as *)
(* the torch primitive it calls does, or raises.                           *)
(***************************************************************************)
EXTENDS Integers, Sequences, FiniteSets, TLC

(* ---------------------------------------------------------------- bounds *)
MaxStages == 4      \* longest channel-multiplier schedule that is built
MaxSmall  == 3      \* heights/widths 1..MaxSmall (not divisible by 8)
MaxMult8  == 2      \* heights/widths 8, 16, .. 8*MaxMult8

(* ----------------------------------------------------- program constants *)
ch == 320                    \* base width
NumGroups == 32              \* nn.GroupNorm(32, ..)
LatentChannels == 4          \* UNet(in_channels=4)
OutputChannels == 4          \* UNet(out_channels=4)
DefaultHeads == 8            \* UNet(num_heads=8)
BottleneckWidth == 1280      \* UNet_ResBlock(1280, 1280, ..)
BottleneckHeads == 8         \* UNet_TransformerEncoder(num_heads=8, ..)
BottleneckEmbed == 160       \* UNet_TransformerEncoder(.., embedding_dim=160)
OutputWidth == 320           \* nn.GroupNorm(32, 320)
DecoderTopMult == 4          \* decoder_channels = ch_multiplier + [4]
EncLayers == 2               \* layers of an encoder stage
DecLayers == 3               \* layers of a decoder stage
DefaultSchedule == <<1, 2, 4, 4>>

(* -------------------------------------------------- inputs that are drawn *)
\* Schedules handed to UNet_Encoder and UNet_Decoder: for every length
\* n in 1..MaxStages, the default schedule cut to its first n - 1 entries and
\* closed with the top multiplier (n = 4 is the default [1, 2, 4, 4]; longer
\* ones repeat the top multiplier).
ScheduleOfLength(n) ==
    [k \in 1..n |-> IF k < n /\ k <= Len(DefaultSchedule) THEN DefaultSchedule[k]
                    ELSE DecoderTopMult]
Schedules == {ScheduleOfLength(n) : n \in 1..MaxStages}
\* Head counts handed to the constructor: the default, one that divides no
\* width and leaves widths that GroupNorm refuses, and one that divides no
\* width but leaves multiples of 32.
HeadCounts == {DefaultHeads, 3, 96}
Sizes == (1..MaxSmall) \cup {8 * k : k \in 1..MaxMult8}
Batches == {1, 2}

Shape(b, c, h, w) == [b |-> b, c |-> c, h |-> h, w |-> w]
NoShape == Shape(0, 0, 0, 0)

(* ------------------------------------------------------ module structure *)
\* UNet_TransformerEncoder.__init__: channels = embedding_dim * num_heads
TransformerChannels(num_heads, embedding_dim) == embedding_dim * num_heads

Res(in, out) == [kind |-> "res", in |-> in, out |-> out, heads |-> 0]
Tr(num_heads, embedding_dim) ==
    [kind |-> "tr",
     in |-> TransformerChannels(num_heads, embedding_dim),
     out |-> TransformerChannels(num_heads, embedding_dim),
     heads |-> num_heads]

\* in_ch_multiplier = [1] + ch_multiplier
InChMultiplier(ch_multiplier) == <<1>> \o ch_multiplier
\* decoder_channels = ch_multiplier + [4]
DecoderChannels(ch_multiplier) == ch_multiplier \o <<DecoderTopMult>>

NumStages(cfg) == Len(cfg.ch_multiplier)

\* Stage i (0-based, as in the source) of UNet_Encoder.down: its block, a
\* sequence of TimeStepSequential layers, each a sequence of modules.
EncoderBlock(cfg, i) ==
    LET in_channels  == ch * InChMultiplier(cfg.ch_multiplier)[i + 1]
        out_channels == ch * cfg.ch_multiplier[i + 1]
        embed        == out_channels \div cfg.num_heads
    IN  IF i # NumStages(cfg) - 1
        THEN << <<Res(in_channels, out_channels), Tr(cfg.num_heads, embed)>>,
                <<Res(out_channels, out_channels), Tr(cfg.num_heads, embed)>> >>
        ELSE << <<Res(in_channels, out_channels)>>,
                <<Res(out_channels, out_channels)>> >>

\* down.downsample of stage i: UNet_Downsample(out_channels) or nn.Identity()
EncoderDownsample(cfg, i) ==
    IF i # NumStages(cfg) - 1
    THEN [kind |-> "down", in |-> ch * cfg.ch_multiplier[i + 1]]
    ELSE [kind |-> "identity", in |-> 0]

\* mid_ch of decoder stage i.  (MutDecoderMidCh: mid_ch taken at the
\* stage's own width.)
MutDecoderMidCh(cfg, i) == DecoderChannels(cfg.ch_multiplier)[i + 1] * ch
DecoderMidCh(cfg, i) ==
    IF i > 0 THEN DecoderChannels(cfg.ch_multiplier)[i] * ch ELSE ch

\* Stage i of UNet_Decoder (self.up holds them for i = n-1 down to 0).
DecoderBlock(cfg, i) ==
    LET in_ch  == DecoderChannels(cfg.ch_multiplier)[i + 2] * ch
        out_ch == DecoderChannels(cfg.ch_multiplier)[i + 1] * ch
        mid_ch == DecoderMidCh(cfg, i)
        embed  == out_ch \div cfg.num_heads
    IN  IF i = NumStages(cfg) - 1
        THEN << <<Res(in_ch + out_ch, out_ch)>>,
                <<Res(out_ch + out_ch, out_ch)>>,
                <<Res(out_ch + mid_ch, out_ch)>> >>
        ELSE << <<Res(in_ch + out_ch, out_ch), Tr(cfg.num_heads, embed)>>,
                <<Res(out_ch + out_ch, out_ch), Tr(cfg.num_heads, embed)>>,
                <<Res(out_ch + mid_ch, out_ch), Tr(cfg.num_heads, embed)>> >>

\* up.upsample of stage i: UNet_Upsample(out_ch) or nn.Identity().
\* (MutDecoderUpsample: the identity given to the deepest stage instead.)
\* (Mut_UpsampleEveryStage: a UNet_Upsample given to stage 0 too.)
Mut_UpsampleEveryStage(cfg, i) ==
    [kind |-> "up", in |-> DecoderChannels(cfg.ch_multiplier)[i + 1] * ch]
MutDecoderUpsample(cfg, i) ==
    IF i # NumStages(cfg) - 1
    THEN [kind |-> "up", in |-> DecoderChannels(cfg.ch_multiplier)[i + 1] * ch]
    ELSE [kind |-> "identity", in |-> 0]
DecoderUpsample(cfg, i) ==
    IF i # 0
    THEN [kind |-> "up", in |-> DecoderChannels(cfg.ch_multiplier)[i + 1] * ch]
    ELSE [kind |-> "identity", in |-> 0]

\* The decoder stage that runs k-th (k = 0 first): self.up[k] is stage n-1-k.
UpIndex(cfg, k) == NumStages(cfg) - 1 - k

\* UNet.bottleneck: one TimeStepSequential of three modules
Bottleneck ==
    <<Res(BottleneckWidth, BottleneckWidth),
      Tr(BottleneckHeads, BottleneckEmbed),
      Res(BottleneckWidth, BottleneckWidth)>>

(* ------------------------------------------------- construction (checks) *)
\* nn.GroupNorm(num_groups, num_channels) refuses a channel count that the
\* group count does not divide.
GroupNormOK(num_channels) == num_channels % NumGroups = 0

\* UNet_AttentionBlock.__init__: if embedding_dim % num_heads: raise
AttentionBlockOK(num_heads, embedding_dim) == embedding_dim % num_heads = 0

\* MultiheadSelfAttention(num_heads, embedding_dim): dim divisible by heads
MultiheadSelfAttentionOK(num_heads, embedding_dim) ==
    embedding_dim % num_heads = 0

ModuleOK(m) ==
    IF m.kind = "res"
    THEN GroupNormOK(m.in) /\ GroupNormOK(m.out)
    ELSE /\ GroupNormOK(m.in)
         /\ AttentionBlockOK(m.heads, m.in)
         /\ MultiheadSelfAttentionOK(m.heads, m.in)

BlockOK(block) ==
    \A j \in 1..Len(block) : \A k \in 1..Len(block[j]) : ModuleOK(block[j][k])

\* UNet_Encoder.__init__ / UNet_Decoder.__init__ / UNet.__init__ return
\* without raising.
EncoderInitOK(cfg) == \A i \in 0..(NumStages(cfg) - 1) : BlockOK(EncoderBlock(cfg, i))
DecoderInitOK(cfg) == \A i \in 0..(NumStages(cfg) - 1) : BlockOK(DecoderBlock(cfg, i))
UNetInitOK(cfg) ==
    /\ EncoderInitOK(cfg)
    /\ BlockOK(<<Bottleneck>>)
    /\ DecoderInitOK(cfg)
    /\ GroupNormOK(OutputWidth)

(* ------------------------------------------------------- attention units *)
\* The UNet_AttentionBlock instances found by named_modules() under the
\* encoder, the bottleneck and the decoder: <<part, stage, layer>>.
EncoderAttentionBlocks(cfg) ==
    {<<"enc", i, j>> : i \in 0..(NumStages(cfg) - 2), j \in 0..(EncLayers - 1)}
BottleneckAttentionBlocks == {<<"mid", 0, 1>>}
DecoderAttentionBlocks(cfg) ==
    {<<"dec", i, j>> : i \in 0..(NumStages(cfg) - 2), j \in 0..(DecLayers - 1)}
AttentionBlocks(cfg) ==
    EncoderAttentionBlocks(cfg) \cup BottleneckAttentionBlocks
        \cup DecoderAttentionBlocks(cfg)
\* attn1 and attn2 of a block
AttnUnits(blocks) == {<<blk, a>> : blk \in blocks, a \in {1, 2}}

SetFlag(flags, members, value) ==
    [m \in DOMAIN flags |-> IF m \in members THEN value ELSE flags[m]]

\* UNet.gradient_checkpointing_enabled(enabled): three loops.
\* (Mut_gradient_checkpointing_enabled: the bottleneck loop left out.)
Mut_gradient_checkpointing_enabled(flags, cfg, enabled) ==
    SetFlag(SetFlag(flags, EncoderAttentionBlocks(cfg), enabled),
            DecoderAttentionBlocks(cfg), enabled)
gradient_checkpointing_enabled(flags, cfg, enabled) ==
    SetFlag(SetFlag(SetFlag(flags, EncoderAttentionBlocks(cfg), enabled),
                    BottleneckAttentionBlocks, enabled),
            DecoderAttentionBlocks(cfg), enabled)

\* UNet.enable_flash_attn(): three loops, each setting True.
\* (Mut_enable_flash_attn: the flag flipped instead of set.)
Mut_enable_flash_attn(flags, cfg) ==
    [m \in DOMAIN flags |-> ~flags[m]]
enable_flash_attn(flags, cfg) ==
    SetFlag(SetFlag(SetFlag(flags, AttnUnits(EncoderAttentionBlocks(cfg)), TRUE),
                    AttnUnits(BottleneckAttentionBlocks), TRUE),
            AttnUnits(DecoderAttentionBlocks(cfg)), TRUE)

(* ------------------------------------------------------ tensor primitives *)
\* Output length of nn.Conv2d along one spatial axis
ConvOut(n, kernel_size, stride, padding) ==
    (n + 2 * padding - kernel_size) \div stride + 1

\* UNet_Downsample.forward: Conv2d(kernel_size=3, stride=2, padding=1).
\* (Mut_UNet_Downsample: the padding left out.)
Mut_UNet_Downsample(t) ==
    [t EXCEPT !.h = ConvOut(t.h, 3, 2, 0), !.w = ConvOut(t.w, 3, 2, 0)]
UNet_Downsample(t) ==
    [t EXCEPT !.h = ConvOut(t.h, 3, 2, 1), !.w = ConvOut(t.w, 3, 2, 1)]

\* F.interpolate(x, scale_factor=2, mode='nearest')
Interpolate2(t) == [t EXCEPT !.h = 2 * t.h, !.w = 2 * t.w]

\* UNet_Upsample.forward(x, upscale): optional doubling, then
\* Conv2d(kernel_size=3, padding=1)
UNet_Upsample(t, upscale) ==
    LET y == IF upscale THEN Interpolate2(t) ELSE t
    IN  [y EXCEPT !.h = ConvOut(y.h, 3, 1, 1), !.w = ConvOut(y.w, 3, 1, 1)]

\* torch.cat([x, tmp], dim=1): every axis but the channel axis must agree
CatOK(t, tmp) == t.b = tmp.b /\ t.h = tmp.h /\ t.w = tmp.w
Cat(t, tmp) == [t EXCEPT !.c = t.c + tmp.c]

\* One module of a TimeStepSequential applied to t: the module's first
\* GroupNorm/Conv2d raises unless t has the channel count it was built with.
ModuleAccepts(m, t) == t.c = m.in
ModuleOut(m, t) == [t EXCEPT !.c = m.out]

\* TimeStepSequential.forward: the modules in order; ok is FALSE when one
\* of them raises.
RECURSIVE TimeStepSequential(_, _)
TimeStepSequential(layer, t) ==
    IF layer = << >> THEN [ok |-> TRUE, x |-> t]
    ELSE IF ~ModuleAccepts(Head(layer), t) THEN [ok |-> FALSE, x |-> t]
    ELSE TimeStepSequential(Tail(layer), ModuleOut(Head(layer), t))

\* skip_connections = [x]: a new list, whatever list an earlier call built.
\* (Mut_NewSkipStack: x appended to the earlier list; Mut_EmptySkipStack:
\* the conv_in output not recorded.)
Mut_NewSkipStack(old, t) == Append(old, t)
Mut_EmptySkipStack(old, t) == << >>
NewSkipStack(old, t) == <<t>>

\* if not isinstance(down.downsample, nn.Identity): skip_connections.append(x)
\* (Mut_PushAfterDownsample: pushed after the identity too.)
Mut_PushAfterDownsample(down) == TRUE
PushAfterDownsample(down) == down.kind # "identity"

\* skip_connections and skip_connections[-1].shape[-1] == prev_hw
\* (Mut_KeepSize: the width comparison left out.)
Mut_KeepSize(stack, hw) == stack # << >>
KeepSize(stack, hw) == stack # << >> /\ stack[Len(stack)].w = hw

(* ------------------------------------------------------------------ state *)
VARIABLES
    pc,                      \* "new", "ctor_error", "idle", or the position in forward
    cfg,                     \* constructor arguments [num_heads, ch_multiplier]
    gradient_checkpointing,  \* UNet_AttentionBlock.gradient_checkpointing, per block
    use_flash_attention,     \* MultiheadSelfAttention.use_flash_attention, per unit
    x,                       \* the activation (shape) of the running forward call
    skip_connections,        \* the skip stack, top last
    si,                      \* index into encoder.down / decoder.up
    li,                      \* index into the stage's block
    prev_hw,                 \* UNet_Decoder.forward's prev_hw
    call,                    \* arguments and flags at the start of the last forward call
    result,                  \* outcome of the last forward call
    trace,                   \* what the last forward call executed, in order
    pushes, pops,            \* skip pushes and pops of the last forward call
    ref,                     \* the call before, when it had the same arguments and flags
    calls,                   \* the last toggle call since construction or the last forward call
    before                   \* the flags before the last toggle call

vars == <<pc, cfg, gradient_checkpointing, use_flash_attention, x, skip_connections,
          si, li, prev_hw, call, result, trace, pushes, pops, ref, calls, before>>

flagVars == <<gradient_checkpointing, use_flash_attention>>
histVars == <<call, ref, calls, before>>

Ev(op, a, b) == <<op, a, b>>
NoResult == [status |-> "none", kind |-> "", shape |-> NoShape]
Pending  == [status |-> "pending", kind |-> "", shape |-> NoShape]
Returned(t) == [status |-> "ok", kind |-> "", shape |-> t]
Raised(kind) == [status |-> "error", kind |-> kind, shape |-> NoShape]
NoCall == [inp |-> NoShape, gc |-> << >>, flash |-> << >>]
NoRun == [status |-> "none", trace |-> << >>, result |-> NoResult]
Flags == [gc |-> gradient_checkpointing, flash |-> use_flash_attention]
\* The last toggle call and whether the call before it was the same call.
NoToggle == [name |-> "", setting |-> FALSE, twice |-> FALSE]
Toggled(last, name, setting) ==
    [name |-> name, setting |-> setting,
     twice |-> (last.name = name /\ last.setting = setting)]

Init ==
    /\ pc = "new"
    /\ cfg = [num_heads |-> DefaultHeads, ch_multiplier |-> DefaultSchedule]
    /\ gradient_checkpointing = << >>
    /\ use_flash_attention = << >>
    /\ x = NoShape
    /\ skip_connections = << >>
    /\ si = 0 /\ li = 0 /\ prev_hw = 0
    /\ call = NoCall
    /\ result = NoResult
    /\ trace = << >>
    /\ pushes = 0 /\ pops = 0
    /\ ref = NoRun
    /\ calls = NoToggle
    /\ before = [gc |-> << >>, flash |-> << >>]

(* ----------------------------------------------------------- construction *)
\* self.gradient_checkpointing = False
DefaultGradientCheckpointing == FALSE
\* MultiheadSelfAttention.use_flash_attention: the accelerated path is
\* optional, off until enabled
DefaultUseFlashAttention == FALSE

\* UNet.__init__ with the given head count.  UNet itself hands no schedule
\* to UNet_Encoder and UNet_Decoder, which then take the default; the other
\* schedules are an encoder and a decoder built with ch_multiplier given and
\* wired as UNet wires them.  The constructor raises when a submodule's
\* constructor does.
Construct(num_heads, ch_multiplier) ==
    LET c == [num_heads |-> num_heads, ch_multiplier |-> ch_multiplier]
        gc == [blk \in AttentionBlocks(c) |-> DefaultGradientCheckpointing]
        fl == [u \in AttnUnits(AttentionBlocks(c)) |-> DefaultUseFlashAttention]
    IN  /\ pc = "new"
        /\ cfg' = c
        /\ IF UNetInitOK(c)
           THEN /\ pc' = "idle"
                /\ gradient_checkpointing' = gc
                /\ use_flash_attention' = fl
                /\ before' = [gc |-> gc, flash |-> fl]
           ELSE /\ pc' = "ctor_error"
                /\ UNCHANGED <<gradient_checkpointing, use_flash_attention, before>>
        /\ UNCHANGED <<x, skip_connections, si, li, prev_hw, call, result, trace,
                       pushes, pops, ref, calls>>

(* ---------------------------------------------------------------- toggles *)
\* The record of the last forward call is kept until the configuration
\* changes.
ForgetRun ==
    /\ call' = NoCall
    /\ result' = NoResult
    /\ trace' = << >>
    /\ pushes' = 0 /\ pops' = 0
    /\ ref' = NoRun

GradientCheckpointing(enabled) ==
    /\ pc = "idle"
    /\ gradient_checkpointing' =
           gradient_checkpointing_enabled(gradient_checkpointing, cfg, enabled)
    /\ calls' = Toggled(calls, "gradient_checkpointing_enabled", enabled)
    /\ before' = Flags
    /\ ForgetRun
    /\ UNCHANGED <<pc, cfg, use_flash_attention, x, skip_connections, si, li, prev_hw>>

\* enable_flash_attn takes no setting: enable_flash_attn() runs the body,
\* enable_flash_attn(False) is refused by the interpreter (TypeError) before
\* the body runs.
EnableFlashAttn(setting) ==
    /\ pc = "idle"
    /\ use_flash_attention' =
           IF setting THEN enable_flash_attn(use_flash_attention, cfg)
           ELSE use_flash_attention
    /\ calls' = Toggled(calls, "enable_flash_attn", setting)
    /\ before' = Flags
    /\ ForgetRun
    /\ UNCHANGED <<pc, cfg, gradient_checkpointing, x, skip_connections, si, li, prev_hw>>

(* ---------------------------------------------------------- UNet.forward *)
\* The call raises: control returns to the caller with the exception.
Raise(kind) ==
    /\ pc' = "idle"
    /\ result' = Raised(kind)
    /\ trace' = Append(trace, Ev("raise", 0, 0))

\* forward(x, timestep, cond) is entered with a latent of shape
\* [b, 4, h, w]; timestep and cond have the matching batch size.
Call(b, h, w) ==
    LET inp == Shape(b, LatentChannels, h, w)
        c   == [inp |-> inp, gc |-> gradient_checkpointing, flash |-> use_flash_attention]
    IN  /\ pc = "idle"
        /\ pc' = "conv_in"
        /\ x' = inp
        /\ call' = c
        /\ ref' = IF result.status \in {"ok", "error"} /\ call = c
                  THEN [status |-> "same", trace |-> trace, result |-> result]
                  ELSE NoRun
        /\ result' = Pending
        /\ trace' = << >>
        /\ pushes' = 0 /\ pops' = 0
        /\ si' = 0 /\ li' = 0 /\ prev_hw' = 0
        /\ calls' = NoToggle
        /\ before' = Flags
        /\ UNCHANGED <<cfg, gradient_checkpointing, use_flash_attention, skip_connections>>

\* UNet_Encoder.forward: x = self.conv_in(x); skip_connections = [x]
EncConvIn ==
    LET y == [x EXCEPT !.c = ch]
    IN  /\ pc = "conv_in"
        /\ x' = y
        /\ skip_connections' = NewSkipStack(skip_connections, y)
        /\ pushes' = 1
        /\ trace' = Append(trace, Ev("conv_in, push", y.h, y.w))
        /\ pc' = "enc_layer"
        /\ UNCHANGED <<cfg, flagVars, si, li, prev_hw, result, pops, histVars>>

\* x = layer(x, t_embed, cond); skip_connections.append(x)
EncLayer ==
    LET block == EncoderBlock(cfg, si)
        r     == TimeStepSequential(block[li + 1], x)
    IN  /\ pc = "enc_layer"
        /\ IF ~r.ok
           THEN /\ Raise("channels")
                /\ UNCHANGED <<x, skip_connections, pushes, li>>
           ELSE /\ x' = r.x
                /\ skip_connections' = Append(skip_connections, r.x)
                /\ pushes' = pushes + 1
                /\ trace' = Append(trace, Ev("layer, push", si, li))
                /\ li' = li + 1
                /\ pc' = IF li + 1 = Len(block) THEN "enc_down" ELSE "enc_layer"
                /\ UNCHANGED result
        /\ UNCHANGED <<cfg, flagVars, si, prev_hw, pops, histVars>>

\* x = down.downsample(x); pushed unless the downsample is nn.Identity.
\* After the last stage the encoder returns.
EncDown ==
    LET down == EncoderDownsample(cfg, si)
        y    == IF down.kind = "down" THEN UNet_Downsample(x) ELSE x
        push == PushAfterDownsample(down)
    IN  /\ pc = "enc_down"
        /\ x' = y
        /\ skip_connections' = IF push THEN Append(skip_connections, y)
                               ELSE skip_connections
        /\ pushes' = IF push THEN pushes + 1 ELSE pushes
        /\ trace' = Append(trace, IF push THEN Ev("downsample, push", si, down.in)
                                   ELSE Ev("downsample", si, down.in))
        /\ si' = IF si + 1 = NumStages(cfg) THEN 0 ELSE si + 1
        /\ li' = 0
        /\ pc' = IF si + 1 = NumStages(cfg) THEN "bottleneck" ELSE "enc_layer"
        /\ UNCHANGED <<cfg, flagVars, prev_hw, result, pops, histVars>>

\* x = self.bottleneck(x, t_embed, cond)
BottleneckStep ==
    LET r == TimeStepSequential(Bottleneck, x)
    IN  /\ pc = "bottleneck"
        /\ IF ~r.ok
           THEN /\ Raise("channels")
                /\ UNCHANGED x
           ELSE /\ x' = r.x
                /\ trace' = Append(trace, Ev("bottleneck", 0, 0))
                /\ pc' = "dec_begin"
                /\ UNCHANGED result
        /\ UNCHANGED <<cfg, flagVars, skip_connections, si, li, prev_hw, pushes, pops,
                       histVars>>

\* UNet_Decoder.forward, top of the stage loop:
\* prev_hw = skip_connections[-1].shape[-1]
DecBegin ==
    /\ pc = "dec_begin"
    /\ IF skip_connections = << >>
       THEN /\ Raise("index")
            /\ UNCHANGED <<prev_hw, li>>
       ELSE /\ prev_hw' = skip_connections[Len(skip_connections)].w
            /\ li' = 0
            /\ trace' = Append(trace, Ev("peek", UpIndex(cfg, si),
                                         skip_connections[Len(skip_connections)].w))
            /\ pc' = "dec_layer"
            /\ UNCHANGED result
    /\ UNCHANGED <<cfg, flagVars, x, skip_connections, si, pushes, pops, histVars>>

\* tmp = skip_connections.pop(); x = torch.cat([x, tmp], dim=1);
\* x = layer(x, t_embed, cond)
DecLayer ==
    LET i     == UpIndex(cfg, si)
        block == DecoderBlock(cfg, i)
        tmp   == skip_connections[Len(skip_connections)]
        rest  == SubSeq(skip_connections, 1, Len(skip_connections) - 1)
        r     == TimeStepSequential(block[li + 1], Cat(x, tmp))
    IN  /\ pc = "dec_layer"
        /\ IF skip_connections = << >>
           THEN /\ Raise("index")
                /\ UNCHANGED <<x, skip_connections, pops, li>>
           ELSE /\ skip_connections' = rest
                /\ pops' = pops + 1
                /\ IF ~CatOK(x, tmp)
                   THEN /\ pc' = "idle"
                        /\ result' = Raised("cat")
                        /\ trace' = Append(trace, Ev("pop, raise", i, li))
                        /\ UNCHANGED <<x, li>>
                   ELSE IF ~r.ok
                   THEN /\ pc' = "idle"
                        /\ result' = Raised("channels")
                        /\ trace' = Append(trace, Ev("pop, raise", i, li))
                        /\ UNCHANGED <<x, li>>
                   ELSE /\ x' = r.x
                        /\ trace' = Append(trace, Ev("pop, layer", i, li))
                        /\ li' = li + 1
                        /\ pc' = IF li + 1 = Len(block) THEN "dec_up" ELSE "dec_layer"
                        /\ UNCHANGED result
        /\ UNCHANGED <<cfg, flagVars, si, prev_hw, pushes, histVars>>

\* After the layers of a stage: up.upsample(x, upscale=False) when the next
\* skip has the width the stage began with, up.upsample(x) otherwise.
\* nn.Identity.forward takes no upscale argument.  mode: 0 identity,
\* 1 convolution only, 2 doubling and convolution.
DecUp ==
    LET i    == UpIndex(cfg, si)
        up   == DecoderUpsample(cfg, i)
        keep == KeepSize(skip_connections, prev_hw)
        y    == IF up.kind = "identity" THEN x ELSE UNet_Upsample(x, ~keep)
        mode == IF up.kind = "identity" THEN 0 ELSE IF keep THEN 1 ELSE 2
    IN  /\ pc = "dec_up"
        /\ IF keep /\ up.kind = "identity"
           THEN /\ Raise("type")
                /\ UNCHANGED <<x, si>>
           ELSE /\ x' = y
                /\ trace' = Append(trace, Ev("upsample", i, mode))
                /\ si' = si + 1
                /\ pc' = IF si + 1 = NumStages(cfg) THEN "output" ELSE "dec_begin"
                /\ UNCHANGED result
        /\ UNCHANGED <<cfg, flagVars, skip_connections, li, prev_hw, pushes, pops,
                       histVars>>

\* output = self.output(x): GroupNorm(32, 320), SiLU, Conv2d(320, out_channels)
Output ==
    LET y == [x EXCEPT !.c = OutputChannels]
    IN  /\ pc = "output"
        /\ IF x.c # OutputWidth
           THEN /\ Raise("channels")
                /\ UNCHANGED x
           ELSE /\ x' = y
                /\ result' = Returned(y)
                /\ trace' = Append(trace, Ev("output", 0, 0))
                /\ pc' = "idle"
        /\ UNCHANGED <<cfg, flagVars, skip_connections, si, li, prev_hw, pushes, pops,
                       histVars>>

Next ==
    \/ \E num_heads \in HeadCounts, ch_multiplier \in Schedules :
           Construct(num_heads, ch_multiplier)
    \/ \E enabled \in BOOLEAN : GradientCheckpointing(enabled)
    \/ \E setting \in BOOLEAN : EnableFlashAttn(setting)
    \/ \E b \in Batches, h \in Sizes, w \in Sizes : Call(b, h, w)
    \/ EncConvIn
    \/ EncLayer
    \/ EncDown
    \/ BottleneckStep
    \/ DecBegin
    \/ DecLayer
    \/ DecUp
    \/ Output

Spec == Init /\ [][Next]_vars

(* ================================================================ claims *)
Div8(n) == n > 0 /\ n % 8 = 0
Running == pc \in {"conv_in", "enc_layer", "enc_down", "bottleneck", "dec_begin",
                   "dec_layer", "dec_up", "output"}
\* The model as UNet() builds it: the default schedule and a head count that
\* divides the base width (hence every stage width).
ValidHeads == ch % cfg.num_heads = 0
DefaultUNet == pc \notin {"new", "ctor_error"} /\ cfg.ch_multiplier = DefaultSchedule
                  /\ ValidHeads
LastEv == IF trace = << >> THEN Ev("", 0, 0) ELSE trace[Len(trace)]
Top == skip_connections[Len(skip_connections)]
IsPrefix(s, t) == Len(s) <= Len(t) /\ SubSeq(t, 1, Len(s)) = s

\* C1: on the default model, a forward call on a latent [b, 4, h, w] with h
\* and w divisible by 8 never raises, and what it returns has exactly the
\* shape [b, 4, h, w] of its input.
C1_ShapePreserved ==
    (DefaultUNet /\ Div8(call.inp.h) /\ Div8(call.inp.w)) =>
        /\ result.status # "error"
        /\ result.status = "ok" =>
               result.shape = Shape(call.inp.b, 4, call.inp.h, call.inp.w)
C1_Witness ==
    /\ DefaultUNet /\ result.status = "ok"
    /\ call.inp = Shape(2, 4, 8, 16)
    /\ result.shape = Shape(2, 4, 8, 16)

\* C2: for a schedule of n stages, when the encoder returns it has pushed
\* 1 + 2n + (n - 1) tensors (conv_in, one per layer, one per real
\* downsample) and they are all on the stack; when the paired decoder
\* returns it has popped 3n tensors, exactly as many as were pushed.
C2_SkipBalance ==
    LET n == NumStages(cfg)
    IN  /\ pc = "bottleneck" =>
               pushes = 1 + 2 * n + (n - 1) /\ Len(skip_connections) = pushes
        /\ pc = "output" => pops = 3 * n /\ pops = pushes
C2_Witness ==
    pc = "output" /\ NumStages(cfg) = 3 /\ pushes = 9 /\ pops = 9

\* C3: the decoder never peeks at or pops an empty skip stack: the stack is
\* non-empty at the top of every decoder stage and before every layer's pop,
\* no forward call ends in an IndexError, and the stack is empty when the
\* decoder has returned.
C3_NoUnderflow ==
    /\ pc \in {"dec_begin", "dec_layer"} => skip_connections # << >>
    /\ result.kind # "index"
    /\ pc = "output" => skip_connections = << >>
    /\ result.status = "ok" => skip_connections = << >>
C3_Witness ==
    /\ DefaultUNet /\ pc = "dec_layer" /\ li = 2 /\ UpIndex(cfg, si) = 0
    /\ Len(skip_connections) = 1 /\ pops = 11

\* C4: a UNet whose constructor returned has a head count that divides the
\* width of every transformer block built from it (320, 640 and 1280: the
\* widths ch * m of all stages but the last).
C4_HeadCountChecked ==
    (pc \notin {"new", "ctor_error"} /\ cfg.ch_multiplier = DefaultSchedule) =>
        \A i \in 0..(NumStages(cfg) - 2) :
            (ch * cfg.ch_multiplier[i + 1]) % cfg.num_heads = 0

\* C5 (as stated): after a toggle call requesting setting s, the flag of that
\* toggle equals s on every block of the encoder, the bottleneck and the
\* decoder of the UNet.
C5_Original ==
    cfg.ch_multiplier = DefaultSchedule =>
    /\ calls.name = "gradient_checkpointing_enabled" =>
           \A blk \in DOMAIN gradient_checkpointing :
               gradient_checkpointing[blk] = calls.setting
    /\ calls.name = "enable_flash_attn" =>
           \A u \in DOMAIN use_flash_attention :
               use_flash_attention[u] = calls.setting
\* C5 (amended): gradient_checkpointing_enabled(s) leaves the recomputation
\* flag equal to s on every attention block of the encoder, the bottleneck
\* and the decoder; enable_flash_attn takes no setting and only enables:
\* after enable_flash_attn() the flag is on on every attention unit, and a
\* call asking for it to be switched off changes no flag.
C5_Toggles ==
    /\ calls.name = "gradient_checkpointing_enabled" =>
           /\ DOMAIN gradient_checkpointing = AttentionBlocks(cfg)
           /\ \A blk \in AttentionBlocks(cfg) :
                  gradient_checkpointing[blk] = calls.setting
           /\ use_flash_attention = before.flash
    /\ (calls.name = "enable_flash_attn" /\ calls.setting) =>
           /\ DOMAIN use_flash_attention = AttnUnits(AttentionBlocks(cfg))
           /\ \A u \in AttnUnits(AttentionBlocks(cfg)) : use_flash_attention[u]
           /\ gradient_checkpointing = before.gc
    /\ (calls.name = "enable_flash_attn" /\ ~calls.setting) => Flags = before
C5_Witness ==
    /\ calls.name = "gradient_checkpointing_enabled" /\ ~calls.setting
    /\ NumStages(cfg) = 4
    /\ \A blk \in AttentionBlocks(cfg) : before.gc[blk] /\ ~gradient_checkpointing[blk]
    /\ \A u \in AttnUnits(AttentionBlocks(cfg)) : use_flash_attention[u]

\* C6: when enable_flash_attn() is called twice in a row, every flag of every
\* block after the second call is what it was after the first.
C6_Idempotent ==
    (calls.name = "enable_flash_attn" /\ calls.setting /\ calls.twice) =>
        Flags = before
C6_Witness ==
    /\ calls.name = "enable_flash_attn" /\ calls.setting /\ calls.twice
    /\ NumStages(cfg) = 4
    /\ \A u \in AttnUnits(AttentionBlocks(cfg)) : use_flash_attention[u]

\* C7: a forward call starts from a stack holding only the conv_in output,
\* whatever an earlier call left behind; it leaves every flag as it found
\* it; and a call with the same latent shape and the same flags as the call
\* before it executes the same steps in the same order and ends with the
\* same result.
C7_NoCarriedState ==
    /\ (pc = "enc_layer" /\ si = 0 /\ li = 0) =>
           skip_connections = <<x>> /\ pushes = 1
    /\ result.status # "none" =>
           gradient_checkpointing = call.gc /\ use_flash_attention = call.flash
    /\ ref.status = "same" =>
           /\ IsPrefix(trace, ref.trace)
           /\ result.status # "pending" => trace = ref.trace /\ result = ref.result
C7_Witness ==
    /\ ref.status = "same" /\ ref.result.status = "error"
    /\ result.status = "error" /\ skip_connections # << >>
    /\ DefaultUNet

\* The state right after a decoder stage's upsample step; its event is
\* <<"upsample", i, mode>> with mode 0 identity, 1 convolution only,
\* 2 doubling and convolution.
AfterUpsample == pc \in {"dec_begin", "output"} /\ LastEv[1] = "upsample"
UpStage == LastEv[2]
UpMode == LastEv[3]
\* The activation's size before that step.
PreH == IF UpMode = 2 THEN x.h \div 2 ELSE x.h
PreW == IF UpMode = 2 THEN x.w \div 2 ELSE x.w
Aligned ==
    (DefaultUNet /\ Div8(call.inp.h) /\ Div8(call.inp.w)) =>
        /\ pc = "dec_layer" => Top.h = x.h /\ Top.w = x.w
        /\ result.kind # "cat"

\* C8 (as stated), of the UNet: after the layers of a decoder stage the decoder doubles
\* and convolves, unless the next skip tensor on the stack has the current
\* height and width of the activation, and then it convolves without
\* doubling; and for h, w divisible by 8 every popped skip tensor has the
\* height and width of the activation it is concatenated with.
C8_Original ==
    /\ (DefaultUNet /\ AfterUpsample) =>
           LET match == /\ skip_connections # << >>
                        /\ Top.h = PreH /\ Top.w = PreW
           IN  UpMode = IF match THEN 1 ELSE 2
    /\ Aligned
\* C8 (amended): after the layers of every decoder stage but stage 0, the
\* last to run, whose upsample is the identity, the decoder doubles and
\* convolves, unless the next skip tensor on the stack has the width of the
\* skip tensor that was on top when the stage began (which is the width of
\* the activation; heights are not compared), and then it convolves without
\* doubling; and for h, w divisible by 8 every popped skip tensor has the
\* height and width of the activation it is concatenated with.
C8_UpsampleRule ==
    /\ AfterUpsample =>
           LET keep == skip_connections # << >> /\ Top.w = prev_hw
           IN  /\ UpMode = IF UpStage = 0 THEN 0 ELSE IF keep THEN 1 ELSE 2
               /\ x.w = IF UpMode = 2 THEN 2 * prev_hw ELSE prev_hw
    /\ Aligned
C8_Witness ==
    /\ DefaultUNet /\ result.status = "ok" /\ call.inp.h = 2 /\ call.inp.w = 2
    /\ \E k \in 1..Len(trace) : trace[k] = Ev("upsample", 3, 1)
    /\ \E k \in 1..Len(trace) : trace[k] = Ev("upsample", 1, 2)

\* C9 (as stated), of the UNet: the upsample step of the decoder's deepest
\* stage (stage n - 1, the first to run) is the identity.
C9_Original ==
    (DefaultUNet /\ AfterUpsample /\ UpStage = NumStages(cfg) - 1) => UpMode = 0
\* C9 (amended): the identity upsample is that of the decoder's outermost
\* stage (stage 0, at base width, the last to run): it leaves the
\* activation at the height and width of the input latent; every other
\* stage, the deepest included, applies the UNet_Upsample convolution, with
\* or without doubling.
C9_IdentityIsOutermost ==
    /\ AfterUpsample => (UpMode = 0 <=> UpStage = 0)
    /\ pc = "output" =>
           /\ LastEv = Ev("upsample", 0, 0)
           /\ x.h = call.inp.h /\ x.w = call.inp.w
C9_Witness ==
    /\ DefaultUNet /\ pc = "output" /\ LastEv = Ev("upsample", 0, 0)
    /\ \E k \in 1..Len(trace) : trace[k] = Ev("upsample", 3, 2)

\* C10: on the default model, at every decoder layer the channels of the
\* concatenation (activation plus popped skip tensor) are the input channels
\* the layer's residual block was built with, no forward call ends in a
\* channel mismatch, and the decoder hands 320 channels to the output
\* projection.
C10_DecoderChannels ==
    DefaultUNet =>
        /\ pc = "dec_layer" =>
               x.c + Top.c = Head(DecoderBlock(cfg, UpIndex(cfg, si))[li + 1]).in
        /\ result.kind # "channels"
        /\ pc = "output" => x.c = 320
C10_Witness ==
    /\ DefaultUNet /\ pc = "dec_layer" /\ UpIndex(cfg, si) = 1 /\ li = 2
    /\ x.c = 640 /\ Top.c = 320

\* C11: on the UNet, for every input height and width >= 1, divisible by 8
\* or not, a forward call that has ended either raised the shape mismatch of
\* a decoder concatenation (torch.cat, after a pop) or returned a tensor with
\* the height and width of its input; it never returns another size and
\* never ends any other way.
C11_CatErrorOrSameSize ==
    (DefaultUNet /\ result.status \in {"ok", "error"}) =>
        \/ /\ result.status = "error" /\ result.kind = "cat"
           /\ LastEv[1] = "pop, raise"
        \/ /\ result.status = "ok"
           /\ result.shape.h = call.inp.h /\ result.shape.w = call.inp.w
\* An odd input: 3 -> 2 -> 1 -> 1 down, 1 -> 1 -> 2 -> 4 up, and the last
\* stage's first concatenation meets the 3 x 3 skip tensor.
C11_Witness ==
    /\ DefaultUNet /\ result.status = "error" /\ result.kind = "cat"
    /\ call.inp.h = 3 /\ call.inp.w = 3
    /\ x.h = 4 /\ x.w = 4 /\ UpIndex(cfg, si) = 0 /\ li = 0

====
